---- MODULE Spec2Model ----
(***************************************************************************)
(* A model of streamlit-aggrid-redux: the column-by-column options builder *)
(* (grid_options_builder.py), the GridBuilder that consumes its result     *)
(* (grid_builder.py), the decoder of the widget's response                 *)
(* (grid_return.py), the JsCode wrapper (code.py) and ag_grid, which runs  *)
(* the three in turn around the component call (__init__.py).              *)
(*                                                                         *)
(* Python values are modelled as follows.                                  *)
(*   dict   a function from its keys (strings) to its values; where the    *)
(*          insertion order is observable (columnDefs) the dict is a       *)
(*          record [kind |-> "dict", keys |-> <<...>>, vals |-> <<...>>]   *)
(*   list   a sequence, or [kind |-> "list", keys |-> <<>>, vals |-> ...]  *)
(*          for the columnDefs slot that holds either a dict or a list     *)
(*   None   NoneVal where a list is optional, the string "None" otherwise  *)
(*   raise  the name of the exception class in the result's exc field      *)
(***************************************************************************)
EXTENDS Integers, Sequences, FiniteSets, TLC

VARIABLES
    grid_options,   \* contents of the dict object GridOptionsBuilder.grid_options
    returned,       \* the reference the last build() handed to the caller
    last,           \* the last call: its name and its outcome
    added,          \* history: the fields add_column accepted, in call order
    grid,           \* the GridBuilder(...) call of the script, once made: its
                    \* arguments, its outcome and the caller's objects after it
    response,       \* the generate_response(...) call, once made: its arguments,
                    \* the GridReturn it gave and the last read of that object
    tree,           \* the walk_grid_options(...) call on a configuration tree
    js,             \* the JsCode objects made from a script text
    call            \* the ag_grid(...) call of the script: its position, whether the
                    \* component was invoked, and what the call raised

vars == <<grid_options, returned, last, added, grid, response, tree, js, call>>

----------------------------------------------------------------------------
\* Bounds of the model

\* how many distinct field names the caller uses
MaxFields == 2
\* how many tool panels a side bar may collect
MaxPanels == 2
\* how many words a mode string is made of
MaxTokens == 2
\* how deep the containers of a configuration tree nest
MaxDepth == 3
\* how many pieces a script text is made of
MaxPieces == 3

FieldPool == <<"a", "b", "c", "d">>
Fields == {FieldPool[i] : i \in 1..MaxFields}
Headers == {"None", "H"}
\* the field names of the specifications that are not about the columns
TwoFields == {"a", "b"}
OneField == {"a"}

----------------------------------------------------------------------------
\* Python dict and list primitives

EmptyDict == <<>>
NoneVal == [isNone |-> TRUE]
Some(v) == [isNone |-> FALSE, val |-> v]

\* d[k] = v
Put(d, k, v) == [x \in (DOMAIN d) \cup {k} |-> IF x = k THEN v ELSE d[x]]
\* d.pop(k, None)
Pop(d, k) == [x \in (DOMAIN d) \ {k} |-> d[x]]
\* d.update(e)
Update(d, e) == [x \in (DOMAIN d) \cup (DOMAIN e) |-> IF x \in DOMAIN e THEN e[x] ELSE d[x]]
\* d restricted to the keys ks
Restrict(d, ks) == [x \in (DOMAIN d) \cap ks |-> d[x]]

\* an insertion-ordered dict of column definitions, and a list of them
OrderedDict(keys, vals) == [kind |-> "dict", keys |-> keys, vals |-> vals]
ListOf(vals) == [kind |-> "list", keys |-> <<>>, vals |-> vals]

IndexOf(seq, e) == CHOOSE i \in 1..Len(seq) : seq[i] = e
InSeq(seq, e) == \E i \in 1..Len(seq) : seq[i] = e

\* `field in columnDefs`: key membership for a dict; for a list, equality of the
\* string with one of its elements, which are dicts, hence never true
Contains(cd, field) == cd.kind = "dict" /\ InSeq(cd.keys, field)

\* what a method call produces: an exception or a return value, and the dict after it
Raise(exc, go) == [exc |-> exc, ret |-> "none", grid_options |-> go]
Return(ret, go) == [exc |-> "none", ret |-> ret, grid_options |-> go]

----------------------------------------------------------------------------
\* GridOptionsBuilder

\* GridOptionsBuilder(): no grid_options, no keyword arguments
GridOptionsBuilder_init == Put(EmptyDict, "columnDefs", OrderedDict(<<>>, <<>>))

default_options == [minWidth |-> 100, editable |-> FALSE, sortable |-> TRUE, resizable |-> TRUE]

\* add_column without its existence check: the assignment overwrites the definition
add_column_unchecked(go, field, header, options) ==
    LET cd == go["columnDefs"]
        defs == Update([headerName |-> IF header = "None" THEN field ELSE header,
                        field |-> field], options)
    IN  IF cd.kind = "list"
        THEN Raise("TypeError", go)
        ELSE IF InSeq(cd.keys, field)
        THEN Return("self",
                    Put(go, "columnDefs",
                        OrderedDict(cd.keys, [cd.vals EXCEPT ![IndexOf(cd.keys, field)] = defs])))
        ELSE Return("self",
                    Put(go, "columnDefs",
                        OrderedDict(Append(cd.keys, field), Append(cd.vals, defs))))

add_column(go, field, header, options) ==
    LET cd == go["columnDefs"]
        header_name == IF header = "None" THEN field ELSE header
        \* **options is a dict, never None: the else branch is dead
        defs == Update([headerName |-> header_name, field |-> field], options)
    IN  IF Contains(cd, field)
        THEN Raise("GridOptionsBuilderError", go)
        ELSE IF cd.kind = "list"
        THEN Raise("TypeError", go)
        ELSE Return("self",
                    Put(go, "columnDefs",
                        OrderedDict(Append(cd.keys, field), Append(cd.vals, defs))))

update_column(go, field, header, options) ==
    LET cd == go["columnDefs"]
    IN  IF ~Contains(cd, field)
        THEN Raise("GridOptionsBuilderError", go)
        ELSE LET i == IndexOf(cd.keys, field)
                 defs == Update(Put(cd.vals[i], "headerName",
                                    IF header \notin {"None", ""} THEN header ELSE field),
                                options)
             IN  Return("self",
                        Put(go, "columnDefs",
                            OrderedDict(cd.keys, [cd.vals EXCEPT ![i] = defs])))


\* the two tool panels add_sidebar knows
FiltersPanel ==
    [id |-> "filters", labelDefault |-> "Filters", labelKey |-> "filters",
     iconKey |-> "filter", toolPanel |-> "agFiltersToolPanel"]
ColumnsPanel ==
    [id |-> "columns", labelDefault |-> "Columns", labelKey |-> "columns",
     iconKey |-> "columns", toolPanel |-> "agColumnsToolPanel"]

add_sidebar(go, filters, columns) ==
    LET side_bar == IF "sideBar" \in DOMAIN go THEN go["sideBar"]
                    ELSE [toolPanels |-> <<>>, defaultToolPanel |-> ""]
        \* replacing an empty list by [panel] and appending to it give the same list
        with_filters == IF filters
                        THEN [side_bar EXCEPT !.toolPanels = Append(@, FiltersPanel)]
                        ELSE side_bar
        with_columns == IF columns
                        THEN [with_filters EXCEPT !.toolPanels = Append(@, ColumnsPanel)]
                        ELSE with_filters
    IN  Return("self", Put(go, "sideBar", with_columns))

\* selection_mode.lower().startswith("si"), on the modes the caller uses
StartsWithSi(selection_mode) == selection_mode \in {"single", "Single", "SINGLE"}

add_grid_selection(go, a) ==
    LET cd == go["columnDefs"]
        suppress_click_selection == IF a.use_checkbox THEN TRUE ELSE a.suppress_click_selection
        \* the checkbox flags go to the first key's definition
        checkbox ==
            [checkboxSelection |-> TRUE,
             headerCheckboxSelection |-> a.use_header_checkbox,
             headerCheckboxSelectionFilteredOnly |-> a.use_header_checkbox_filtered]
        go1 == IF a.use_checkbox
               THEN Put(Put(go, "columnDefs",
                            OrderedDict(cd.keys, [cd.vals EXCEPT ![1] = Update(@, checkbox)])),
                        "clearCheckboxOnReload", a.clear_checkbox_on_reload)
               ELSE go
        go2 == IF ~a.pre_selected_rows.isNone /\ Len(a.pre_selected_rows.val) > 0
               THEN Put(go1, "preSelectedRows", a.pre_selected_rows.val)
               ELSE go1
        go3 == Update(go2,
                   [rowSelection |-> IF StartsWithSi(a.selection_mode) THEN "single" ELSE "multiple",
                    rowMultiSelectWithClick |-> a.multi_select_with_click,
                    suppressRowDeselection |-> a.suppress_deselection,
                    suppressRowClickSelection |-> suppress_click_selection,
                    groupSelectsChildren |-> a.group_selects_children,
                    groupSelectsFiltered |-> a.group_selects_filtered])
    IN  IF a.selection_mode = "disabled"
        THEN Return("self",
                    Pop(Pop(Pop(Pop(Pop(Pop(go, "rowSelection"), "rowMultiSeletWithClick"),
                        "suppressRowDeselection"), "suppressRowClickSelection"),
                        "groupSelectsChildren"), "groupSelectsFiltered"))
        ELSE IF a.use_checkbox /\ cd.kind = "list"
        THEN Raise("AttributeError", go)      \* a list has no keys()
        ELSE IF a.use_checkbox /\ Len(cd.keys) = 0
        THEN Raise("StopIteration", go)       \* next() of an exhausted iterator
        ELSE Return("self", go3)

add_pagination(go, auto_page_size, page_size) ==
    IF auto_page_size
    THEN Return("self", Update(go, [pagination |-> TRUE, paginationAutoPageSize |-> TRUE]))
    ELSE Return("self", Update(go, [pagination |-> TRUE, paginationPageSize |-> page_size]))

\* remove_pagination that forgets the explicit page size
remove_pagination_two_keys(go) ==
    Return("self", Pop(Pop(go, "pagination"), "paginationAutoPageSize"))

remove_pagination(go) ==
    Return("self", Pop(Pop(Pop(go, "pagination"), "paginationAutoPageSize"), "paginationPageSize"))

\* build() returns the builder's own dict, not a copy of it
build(go) ==
    LET cd == go["columnDefs"]
    IN  IF cd.kind # "list"
        THEN Return("self.grid_options", Put(go, "columnDefs", ListOf(cd.vals)))
        ELSE Return("self.grid_options", go)

----------------------------------------------------------------------------
\* from_data and the default column types

\* `y in str(dtype)` on the dtype names the data below uses
Substr == {<<"int64", "int">>, <<"float64", "float">>, <<"uint8", "int">>}

_pandas_types(d) ==
    IF d \in {"i", "u", "f"} \/ \E y \in {"int", "float", "double"} : <<d, y>> \in Substr
    THEN [type |-> "numericColumn", filter |-> "numberColumnFilter"]
    ELSE IF d = "m"
    THEN [type |-> "timedeltaFormat"]
    ELSE IF d = "M"
    THEN [type |-> "dateColumn", filter |-> "dateColumnFilter"]
    ELSE [type |-> "rightAligned", filter |-> "textColumnFilter"]

\* the containers convert_anything_to_df turns into a frame
Convertible == {"DataFrame", "Table", "ndarray", "dict"}
\* column names that contain a dot
DottedNames == {"a.b"}

\* the loop of from_data over the frame's columns, from column i on
RECURSIVE from_data_columns(_, _, _)
from_data_columns(go, columns, i) ==
    IF i > Len(columns) THEN Return("opt", go)
    ELSE IF ~columns[i].is_str
    THEN Raise("TypeError", go)           \* `"." in name` with a name that is no string
    ELSE LET name == columns[i].name
             go1 == IF name \in DottedNames THEN Put(go, "suppressFieldDotNotation", TRUE) ELSE go
             r == add_column(go1, name, name, _pandas_types(columns[i].dtype))
         IN  IF r.exc # "none" THEN r ELSE from_data_columns(r.grid_options, columns, i + 1)

from_data(data) ==
    LET opt == Put(GridOptionsBuilder_init, "defaultColDef", default_options)
    IN  IF data.kind \notin Convertible
        THEN Raise("ValueError", opt)
        ELSE from_data_columns(opt, data.columns, 1)

----------------------------------------------------------------------------
\* GridBuilder: the option validators

\* str.lower() on the option strings the caller passes; a mode string is a
\* sequence of characters, the other options are whole words
LowerChar ==
    [F |-> "f", I |-> "i", T |-> "t", A |-> "a", L |-> "l", N |-> "n", O |-> "o", E |-> "e",
     D |-> "d", S |-> "s", C |-> "c"]
Lower(s) == [i \in 1..Len(s) |-> IF s[i] \in DOMAIN LowerChar THEN LowerChar[s[i]] ELSE s[i]]
LowerWord == [Streamlit |-> "streamlit", ALPINE |-> "alpine", Ignore |-> "ignore", RAISE |-> "raise",
              Manual |-> "manual", NONE |-> "none"]
LowerOf(w) == IF w \in DOMAIN LowerWord THEN LowerWord[w] ELSE w
\* `sub in s`
Has(s, sub) == \E i \in 0..(Len(s) - Len(sub)) : SubSeq(s, i + 1, i + Len(sub)) = sub

Ok(v) == [exc |-> "none", val |-> v]
Bad(exc) == [exc |-> exc, val |-> "none"]

_serialize_data(data) ==
    IF data.kind \notin Convertible
    THEN Bad("GridBuilderError")
    ELSE Ok([r \in 1..Len(data.rows) |->
                [n \in {data.columns[c].name : c \in 1..Len(data.columns)} |->
                    data.rows[r][CHOOSE c \in 1..Len(data.columns) : data.columns[c].name = n]]])

\* an auto size mode that asks for the words in the order "fit all"
_process_auto_size_mode_in_order(mode) ==
    IF mode = <<"n", "o", "n", "e">> THEN [exc |-> "none", val |-> 0]
    ELSE IF Has(mode, <<"f", "i", "t">>)
    THEN [exc |-> "none", val |-> IF Has(mode, <<"f", "i", "t", " ", "a", "l", "l">>) THEN 2 ELSE 1]
    ELSE [exc |-> "GridBuilderError", val |-> 0]

_process_auto_size_mode(mode) ==
    IF mode = <<"n", "o", "n", "e">> THEN [exc |-> "none", val |-> 0]
    ELSE IF Has(mode, <<"f", "i", "t">>)
    THEN [exc |-> "none", val |-> IF Has(mode, <<"a", "l", "l">>) THEN 2 ELSE 1]
    ELSE [exc |-> "GridBuilderError", val |-> 0]

_process_return_mode(mode) ==
    IF mode = <<"i", "n", "p", "u", "t">> THEN [exc |-> "none", val |-> 0]
    ELSE IF Has(mode, <<"f", "i", "l", "t", "e", "r">>)
    THEN [exc |-> "none", val |-> IF Has(mode, <<"s", "o", "r", "t">>) THEN 2 ELSE 1]
    ELSE [exc |-> "GridBuilderError", val |-> 0]

theme_opts ==
    {"alpine", "balham", "material", "streamlit", "excel", "astro",
     "alpine-dark", "balham-dark", "streamlit-dark", "astro-dark"}

_process_theme(theme) == IF theme \notin theme_opts THEN Bad("GridBuilderError") ELSE Ok(theme)

_process_excel_export_mode(mode) ==
    IF mode = "none" THEN Ok("NONE")
    ELSE IF mode = "manual" THEN Ok("MANUAL")
    ELSE IF mode = "automatic" THEN Ok("TRIGGER")
    ELSE Bad("GridBuilderError")

_process_conversion_errors(convert, errors) ==
    IF convert /\ errors \notin {"raise", "ignore"} THEN Bad("GridBuilderError") ELSE Ok(errors)

\* custom_css: None, a dict, a string (of JSON or not), or something else
_process_css(custom_css) ==
    IF custom_css.kind = "None" THEN Ok(EmptyDict)
    ELSE IF custom_css.kind = "dict" THEN Ok(custom_css.val)
    ELSE IF custom_css.kind = "str"
    THEN (IF custom_css.parses THEN Ok(custom_css.val) ELSE Bad("JSONDecodeError"))
    ELSE Bad("GridBuilderError")

\* an update trigger: a plain name, or a (name, delay) tuple
Trigger(name) == [name |-> name, form |-> "str"]
DelayedTrigger(name, delay) == [name |-> name, form |-> "tuple", delay |-> delay]

\* updates is NoneVal or Some(list); the result holds the list, and whether it is
\* the caller's list object (then appended to in place) or a new one
_process_update_on(updates, options) ==
    LET ups == IF updates.isNone THEN <<Trigger("columnVisible")>> ELSE updates.val
        out(exc, l) == [exc |-> exc, val |-> l, own |-> updates.isNone]
    IN  IF InSeq(ups, Trigger("selectionChanged"))
        THEN out("none", ups)
        ELSE IF "columnDefs" \notin DOMAIN options
        THEN out("KeyError", ups)
        ELSE LET cd == options["columnDefs"]
             IN  IF cd.kind = "dict" /\ Len(cd.keys) > 0
                 THEN out("AttributeError", ups)   \* the elements are the keys: str has no keys()
                 ELSE IF \E i \in 1..Len(cd.vals) : "checkboxSelection" \in DOMAIN cd.vals[i]
                 THEN out("none", Append(ups, Trigger("selectionChanged")))
                 ELSE out("none", ups)

\* the lambda GridBuilder passes to walk_grid_options, on a value that carries
\* its type in `kind`: lambda v: v.code if isinstance(v, JsCode) else v
replace_js_code(v) == IF v.kind = "JsCode" THEN [kind |-> "str", val |-> v.code] ELSE v

\* walk_grid_options on the configurations of the builder and of RawMappings,
\* which hold no JsCode object: only the entries that hold a list are
\* reassigned, with the function applied to the list itself
walk_grid_options(go) ==
    [k \in DOMAIN go |->
        IF k = "preSelectedRows" THEN replace_js_code(ListOf(go[k])).vals
        ELSE IF k = "columnDefs" /\ go[k].kind = "list" THEN replace_js_code(go[k])
        ELSE go[k]]

----------------------------------------------------------------------------
\* GridBuilder.__new__

NoObj == [exists |-> FALSE]

\* the layout step that flags autoHeight whatever the height is
auto_height_always(go, height) == Put(go, "domLayout", "autoHeight")

\* if obj.height is None: obj.grid_options.update(domLayout="autoHeight")
auto_height(go, height) ==
    IF height.isNone THEN Put(go, "domLayout", "autoHeight") ELSE go

\* the outcome of a construction: the exception or the object, and the contents
\* of the caller's objects (the builder's dict, the raw mapping, the update_on
\* list) after it
Outcome(exc, obj, builder, raw, update_on) ==
    [exc |-> exc, obj |-> obj, builder |-> builder, raw |-> raw, update_on |-> update_on]

\* the grid options step: which dict object obj.grid_options is, and its contents
GridOptionsOf(inp, builder_go) ==
    IF inp.kind = "None"
    THEN LET r == from_data(inp.data)
         IN  IF r.exc # "none" THEN [exc |-> r.exc, ref |-> "new", go |-> EmptyDict]
             ELSE [exc |-> "none", ref |-> "new", go |-> build(r.grid_options).grid_options]
    ELSE IF inp.kind = "GridOptionsBuilder"
    THEN [exc |-> "none", ref |-> "builder", go |-> build(builder_go).grid_options]
    ELSE IF inp.kind = "dict"
    THEN [exc |-> "none", ref |-> "raw", go |-> inp.raw]
    ELSE IF inp.kind = "str"
    THEN (IF inp.parses THEN [exc |-> "none", ref |-> "new", go |-> inp.raw]
          ELSE [exc |-> "JSONDecodeError", ref |-> "new", go |-> EmptyDict])
    ELSE [exc |-> "GridBuilderError", ref |-> "new", go |-> EmptyDict]

GridBuilder_new(inp, builder_go) ==
    LET data == _serialize_data(inp.data)
        auto == _process_auto_size_mode(Lower(inp.columns_auto_size_mode))
        rmode == _process_return_mode(Lower(inp.return_mode))
        errs == _process_conversion_errors(inp.convert_to_original_types, LowerOf(inp.errors))
        theme == _process_theme(LowerOf(inp.theme))
        excel == _process_excel_export_mode(LowerOf(inp.excel_export_mode))
        css == _process_css(inp.custom_css)
        fail(exc) == Outcome(exc, NoObj, builder_go, inp.raw, inp.update_on)
        opts == GridOptionsOf(inp, builder_go)
        go1 == auto_height(opts.go, inp.height)
        ups == _process_update_on(inp.update_on, go1)
        go2 == walk_grid_options(go1)
        \* the caller's objects, given the contents g of obj.grid_options
        builder_after(g) == IF opts.ref = "builder" THEN g ELSE builder_go
        raw_after(g) == IF opts.ref = "raw" THEN g ELSE inp.raw
        update_after == IF ups.own THEN inp.update_on ELSE Some(ups.val)
    IN  IF data.exc # "none" THEN fail(data.exc)
        ELSE IF auto.exc # "none" THEN fail(auto.exc)
        ELSE IF rmode.exc # "none" THEN fail(rmode.exc)
        ELSE IF errs.exc # "none" THEN fail(errs.exc)
        ELSE IF theme.exc # "none" THEN fail(theme.exc)
        ELSE IF excel.exc # "none" THEN fail(excel.exc)
        ELSE IF css.exc # "none" THEN fail(css.exc)
        ELSE IF opts.exc # "none" THEN fail(opts.exc)
        ELSE IF ups.exc # "none"
        THEN Outcome(ups.exc, NoObj, builder_after(go1), raw_after(go1), inp.update_on)
        ELSE Outcome("none",
                     [exists |-> TRUE,
                      data |-> data.val,
                      columns_auto_size_mode |-> auto.val,
                      return_mode |-> rmode.val,
                      errors |-> errs.val,
                      theme |-> theme.val,
                      excel_export_mode |-> excel.val,
                      custom_css |-> css.val,
                      height |-> inp.height,
                      allow_unsafe_js |-> inp.allow_unsafe_js,
                      convert_to_original_types |-> inp.convert_to_original_types,
                      grid_options |-> go2,
                      grid_options_is |-> opts.ref,
                      update_on |-> ups.val],
                     builder_after(go2), raw_after(go2), update_after)

----------------------------------------------------------------------------
\* The caller: one GridOptionsBuilder and the calls made on it.  Every action is
\* one call; the arguments come from the sets a specification passes in.

ColumnOptions == {EmptyDict, [editable |-> TRUE]}

\* the defaults of add_grid_selection's signature
SelectionDefaults ==
    [selection_mode |-> "single", use_checkbox |-> FALSE, use_header_checkbox |-> FALSE,
     use_header_checkbox_filtered |-> FALSE, clear_checkbox_on_reload |-> FALSE,
     pre_selected_rows |-> NoneVal, multi_select_with_click |-> FALSE,
     suppress_deselection |-> FALSE, suppress_click_selection |-> FALSE,
     group_selects_children |-> TRUE, group_selects_filtered |-> TRUE]

SelectionModes == {"single", "multiple", "disabled"}

SelectionArgs ==
    {[SelectionDefaults EXCEPT !.selection_mode = m, !.use_checkbox = c,
                               !.pre_selected_rows = p, !.suppress_click_selection = s] :
        m \in SelectionModes, c \in BOOLEAN,
        p \in {NoneVal, Some(<<>>), Some(<<1>>)}, s \in BOOLEAN}

\* a few representative calls, for the specifications about something else
FewSelectionArgs ==
    {[SelectionDefaults EXCEPT !.selection_mode = m, !.use_checkbox = c] :
        m \in {"multiple", "disabled"}, c \in {TRUE}}

PageSizes == {10, 20}
PaginationArgs == BOOLEAN \X PageSizes
FewPaginationArgs == {<<TRUE, 10>>}

SidebarArgs == BOOLEAN \X BOOLEAN
FewSidebarArgs == {<<TRUE, FALSE>>}
NoPanelSidebarArgs == {<<FALSE, FALSE>>}

\* the data the script passes: a frame of three typed columns, an array (its
\* frame has the integer column label 0), a dict of columns, and an object
\* convert_anything_to_df rejects
FrameData ==
    [kind |-> "DataFrame",
     columns |-> <<[name |-> "id", is_str |-> TRUE, dtype |-> "int64"],
                   [name |-> "name", is_str |-> TRUE, dtype |-> "object"],
                   [name |-> "joined", is_str |-> TRUE, dtype |-> "datetime64[ns]"]>>,
     rows |-> <<<<"1", "x", "2020-01-01">>>>]
ArrayData ==
    [kind |-> "ndarray",
     columns |-> <<[name |-> "0", is_str |-> FALSE, dtype |-> "float64"]>>,
     rows |-> <<<<"1.5">>, <<"2.5">>>>]
DictData ==
    [kind |-> "dict",
     columns |-> <<[name |-> "a.b", is_str |-> TRUE, dtype |-> "uint8"]>>,
     rows |-> <<<<"7">>>>]
\* a columnar table with a duration and a boolean column
TableData ==
    [kind |-> "Table",
     columns |-> <<[name |-> "elapsed", is_str |-> TRUE, dtype |-> "timedelta64[ns]"],
                   [name |-> "done", is_str |-> TRUE, dtype |-> "bool"]>>,
     rows |-> <<<<"0 days 00:00:01", "true">>>>]
UnsupportedData == [kind |-> "set", columns |-> <<>>, rows |-> <<>>]
DataInputs == {FrameData, ArrayData, DictData, TableData, UnsupportedData}

\* raw grid_options mappings, passed as a dict or as the JSON text of one
PlainColumn == [field |-> "a", headerName |-> "a"]
CheckboxColumn == [field |-> "a", headerName |-> "a", checkboxSelection |-> TRUE]
RawMappings ==
    {EmptyDict,
     [rowSelection |-> "single"],
     [columnDefs |-> ListOf(<<>>)],
     [columnDefs |-> ListOf(<<PlainColumn>>)],
     [columnDefs |-> ListOf(<<CheckboxColumn>>)],
     [columnDefs |-> OrderedDict(<<>>, <<>>)],
     [columnDefs |-> OrderedDict(<<"a">>, <<CheckboxColumn>>)],
     [columnDefs |-> ListOf(<<PlainColumn>>), domLayout |-> "normal"]}

\* the strings passed as columns_auto_size_mode: up to MaxTokens words, in any
\* case and order, with and without separators
ModeTokens ==
    {<<"f", "i", "t">>, <<"a", "l", "l">>, <<"n", "o", "n", "e">>, <<" ">>, <<"_">>,
     <<"F", "I", "T">>, <<"A", "l", "l">>, <<"N", "o", "n", "e">>, <<"f", "i">>, <<"x">>}
RECURSIVE TokenStrings(_)
TokenStrings(n) ==
    IF n = 0 THEN {<<>>}
    ELSE LET shorter == TokenStrings(n - 1)
         IN  shorter \cup {s \o t : s \in shorter, t \in ModeTokens}
ModeStrings == TokenStrings(MaxTokens)

ExplicitHeight == 400
Heights == {NoneVal, Some(ExplicitHeight)}

TriggerDelay == 100
UpdateOns ==
    {NoneVal, Some(<<>>), Some(<<Trigger("columnVisible")>>), Some(<<Trigger("selectionChanged")>>),
     Some(<<DelayedTrigger("selectionChanged", TriggerDelay)>>)}

\* the defaults of GridBuilder.__new__'s signature, no grid_options given
DefaultInput ==
    [data |-> FrameData, kind |-> "None", raw |-> EmptyDict, parses |-> TRUE,
     height |-> NoneVal, update_on |-> NoneVal,
     columns_auto_size_mode |-> <<"n", "o", "n", "e">>,
     return_mode |-> <<"i", "n", "p", "u", "t">>,
     convert_to_original_types |-> TRUE, errors |-> "ignore", theme |-> "streamlit",
     excel_export_mode |-> "none", custom_css |-> [kind |-> "None"],
     allow_unsafe_js |-> FALSE]

\* calls that pass the script's GridOptionsBuilder
BuilderInputs ==
    {[DefaultInput EXCEPT !.kind = "GridOptionsBuilder", !.height = h, !.update_on = u] :
        h \in Heights, u \in UpdateOns}

\* calls that pass no grid_options, a raw mapping, JSON text, or something else
OtherInputs ==
    {[DefaultInput EXCEPT !.data = d, !.height = h, !.update_on = u] :
        d \in DataInputs, h \in Heights, u \in UpdateOns}
    \cup {[DefaultInput EXCEPT !.kind = k, !.raw = m, !.height = h, !.update_on = u] :
        k \in {"dict", "str"}, m \in RawMappings, h \in Heights, u \in UpdateOns}
    \cup {[DefaultInput EXCEPT !.kind = "str", !.parses = FALSE],
          [DefaultInput EXCEPT !.kind = "list"]}
    \cup {[DefaultInput EXCEPT !.columns_auto_size_mode = m] :
        m \in {<<"F", "i", "t">>, <<"a", "l", "l", " ", "f", "i", "t">>, <<"a", "l", "l">>}}
    \cup {[DefaultInput EXCEPT !.columns_auto_size_mode = m] : m \in ModeStrings}
    \cup {[DefaultInput EXCEPT !.return_mode = m] :
        m \in {<<"f", "i", "l", "t", "e", "r">>, <<"s", "o", "r", "t">>}}
    \cup {[DefaultInput EXCEPT !.errors = e, !.convert_to_original_types = c] :
        e \in {"RAISE", "ignore", "coerce", "skip"}, c \in BOOLEAN}
    \cup {[DefaultInput EXCEPT !.theme = t] : t \in {"ALPINE", "dark"}}
    \cup {[DefaultInput EXCEPT !.excel_export_mode = m] : m \in {"Manual", "automatic", "auto"}}
    \cup {[DefaultInput EXCEPT !.custom_css = c] :
        c \in {[kind |-> "dict", val |-> EmptyDict], [kind |-> "str", parses |-> FALSE],
               [kind |-> "str", parses |-> TRUE, val |-> EmptyDict], [kind |-> "int"]}}

NoGrid == [called |-> FALSE]
NoResponse == [called |-> FALSE]
NoTree == [called |-> FALSE]
NoJs == [called |-> FALSE]
\* no ag_grid call has been made
NoCall == [pc |-> "idle"]

\* the record of a call: its name, what it raised or returned, and whether it
\* changed the builder's dict
Call(op, r) ==
    [op |-> op, exc |-> r.exc, ret |-> r.ret, changed |-> r.grid_options # grid_options]

Init ==
    /\ grid_options = GridOptionsBuilder_init
    /\ returned = "none"
    /\ last = [op |-> "__init__", exc |-> "none", ret |-> "self", changed |-> FALSE]
    /\ added = <<>>
    /\ grid = NoGrid
    /\ response = NoResponse
    /\ tree = NoTree
    /\ js = NoJs
    /\ call = NoCall

AddColumn(F, H, O) ==
    \E field \in F, header \in H, options \in O :
        LET r == add_column(grid_options, field, header, options)
        IN  /\ grid_options' = r.grid_options
            /\ last' = Call("add_column", r)
            /\ added' = IF r.exc = "none" THEN Append(added, field) ELSE added
            /\ UNCHANGED <<returned, grid, response, tree, js, call>>

UpdateColumn(F, H, O) ==
    \E field \in F, header \in H, options \in O :
        LET r == update_column(grid_options, field, header, options)
        IN  /\ grid_options' = r.grid_options
            /\ last' = Call("update_column", r)
            /\ UNCHANGED <<returned, added, grid, response, tree, js, call>>

AddSidebar(SB) ==
    \E sb \in SB :
        LET r == add_sidebar(grid_options, sb[1], sb[2])
        IN  /\ Len(r.grid_options["sideBar"].toolPanels) <= MaxPanels
            /\ grid_options' = r.grid_options
            /\ last' = Call("add_sidebar", r)
            /\ UNCHANGED <<returned, added, grid, response, tree, js, call>>

AddGridSelection(S) ==
    \E a \in S :
        LET r == add_grid_selection(grid_options, a)
        IN  /\ grid_options' = r.grid_options
            /\ last' = Call("add_grid_selection", r)
            /\ UNCHANGED <<returned, added, grid, response, tree, js, call>>

AddPagination(P) ==
    \E p \in P :
        LET r == add_pagination(grid_options, p[1], p[2])
        IN  /\ grid_options' = r.grid_options
            /\ last' = Call("add_pagination", r)
            /\ UNCHANGED <<returned, added, grid, response, tree, js, call>>

RemovePagination ==
    LET r == remove_pagination(grid_options)
    IN  /\ grid_options' = r.grid_options
        /\ last' = Call("remove_pagination", r)
        /\ UNCHANGED <<returned, added, grid, response, tree, js, call>>

Build ==
    LET r == build(grid_options)
    IN  /\ grid_options' = r.grid_options
        /\ returned' = r.ret
        /\ last' = Call("build", r)
        /\ UNCHANGED <<added, grid, response, tree, js, call>>

\* GridBuilder(data, grid_options, ...), once per script.  A call that does not
\* pass the builder neither reads nor writes it: such calls are made by the
\* scripts that have not used their builder.
GridBuilderCall(I) ==
    /\ grid.called = FALSE
    /\ \E inp \in I :
        LET r == GridBuilder_new(inp, grid_options)
        IN  /\ inp.kind # "GridOptionsBuilder" => last.op = "__init__"
            /\ grid' = [called |-> TRUE, inp |-> inp, exc |-> r.exc, obj |-> r.obj,
                        data |-> inp.data,   \* the frame is made with ensure_copy=True
                        raw |-> r.raw, update_on |-> r.update_on]
            /\ grid_options' = r.builder
            /\ last' = [op |-> "GridBuilder", exc |-> r.exc,
                        ret |-> IF r.exc = "none" THEN "obj" ELSE "none",
                        changed |-> r.builder # grid_options]
            /\ UNCHANGED <<returned, added, response, tree, js, call>>

\* Spec: every method, the column calls with all their arguments
Next ==
    \/ AddColumn(Fields, Headers, ColumnOptions)
    \/ UpdateColumn(Fields, Headers, ColumnOptions)
    \/ AddSidebar(NoPanelSidebarArgs)
    \/ AddGridSelection(FewSelectionArgs)
    \/ AddPagination(FewPaginationArgs)
    \/ RemovePagination
    \/ Build

Spec == Init /\ [][Next]_vars

\* SpecSelection: every method, add_grid_selection with all its arguments
NextSelection ==
    \/ AddColumn(TwoFields, {"None"}, {EmptyDict})
    \/ UpdateColumn(TwoFields, {"H"}, {EmptyDict})
    \/ AddSidebar(FewSidebarArgs)
    \/ AddGridSelection(SelectionArgs)
    \/ AddPagination(FewPaginationArgs)
    \/ RemovePagination
    \/ Build

SpecSelection == Init /\ [][NextSelection]_vars

\* SpecPagination: every method, the pagination and side bar calls with all their arguments
NextPagination ==
    \/ AddColumn(OneField, {"None"}, {EmptyDict})
    \/ UpdateColumn(OneField, {"H"}, {EmptyDict})
    \/ AddSidebar(SidebarArgs)
    \/ AddGridSelection(FewSelectionArgs)
    \/ AddPagination(PaginationArgs)
    \/ RemovePagination
    \/ Build

SpecPagination == Init /\ [][NextPagination]_vars

\* SpecGrid: a script that may use its builder and then constructs the GridBuilder
NextGrid ==
    \/ /\ grid.called = FALSE
       /\ \/ AddColumn(TwoFields, {"None"}, {EmptyDict})
          \/ UpdateColumn(TwoFields, {"H"}, {EmptyDict})
          \/ AddSidebar(FewSidebarArgs)
          \/ AddGridSelection(FewSelectionArgs)
          \/ AddPagination(FewPaginationArgs)
          \/ RemovePagination
          \/ Build
    \/ GridBuilderCall(BuilderInputs)
    \/ GridBuilderCall(OtherInputs)

SpecGrid == Init /\ [][NextGrid]_vars

----------------------------------------------------------------------------
\* Properties of the options builder

columnDefs == grid_options["columnDefs"]

\* f has a column definition, whichever form columnDefs is in
HasColumn(go, f) ==
    \E i \in 1..Len(go["columnDefs"].vals) : go["columnDefs"].vals[i]["field"] = f

PaginationKeys == {"pagination", "paginationAutoPageSize", "paginationPageSize"}

SelectionKeys ==
    {"rowSelection", "rowMultiSelectWithClick", "suppressRowDeselection",
     "suppressRowClickSelection", "groupSelectsChildren", "groupSelectsFiltered",
     "preSelectedRows", "clearCheckboxOnReload"}

CheckboxKeys ==
    {"checkboxSelection", "headerCheckboxSelection", "headerCheckboxSelectionFilteredOnly"}

\* the column definitions without the checkbox flags an add_grid_selection attached
WithoutCheckbox(cd) ==
    [cd EXCEPT !.vals = [i \in 1..Len(cd.vals) |-> Restrict(cd.vals[i], (DOMAIN cd.vals[i]) \ CheckboxKeys)]]

\* the selection-related part of a configuration: its selection keys and the
\* checkbox flags of each column definition
SelectionPart(go) ==
    [top |-> Restrict(go, SelectionKeys),
     cols |-> [i \in 1..Len(go["columnDefs"].vals) |-> Restrict(go["columnDefs"].vals[i], CheckboxKeys)]]

\* the same configuration as if no add_grid_selection had been called on it
NoSelection(go) ==
    Put(Restrict(go, (DOMAIN go) \ SelectionKeys), "columnDefs", WithoutCheckbox(go["columnDefs"]))

\* C1 (as stated): in every builder state, add_column(f) raises the builder error
\* when f already has a column definition and update_column(f) raises it when f
\* has none, both leaving the configuration unchanged; a call that does not fail
\* returns the builder it was called on.
C1_AddUpdateContract ==
    [][\A f \in Fields :
        /\ (AddColumn({f}, Headers, ColumnOptions) /\ HasColumn(grid_options, f))
            => (last'.exc = "GridOptionsBuilderError" /\ grid_options' = grid_options)
        /\ (UpdateColumn({f}, Headers, ColumnOptions) /\ ~HasColumn(grid_options, f))
            => (last'.exc = "GridOptionsBuilderError" /\ grid_options' = grid_options)
        /\ ((AddColumn({f}, Headers, ColumnOptions) \/ UpdateColumn({f}, Headers, ColumnOptions))
                /\ last'.exc = "none")
            => last'.ret = "self"]_vars

\* C2: after any sequence of builder calls, failed ones included, columnDefs holds
\* exactly one definition per successfully added field, in the order of first
\* addition, each with a `field` key equal to that field and a `headerName` key.
C2_OneDefinitionPerField ==
    /\ Len(columnDefs.vals) = Len(added)
    /\ \A i, j \in 1..Len(added) : added[i] = added[j] => i = j
    /\ \A i \in 1..Len(columnDefs.vals) :
        /\ {"field", "headerName"} \subseteq DOMAIN columnDefs.vals[i]
        /\ columnDefs.vals[i]["field"] = added[i]
    /\ columnDefs.kind = "dict" => columnDefs.keys = added

\* two columns, the first carrying checkbox flags, built into a list, and a
\* failed update_column as the last call
C2_Witness ==
    /\ Len(added) >= 2
    /\ columnDefs.kind = "list"
    /\ "checkboxSelection" \in DOMAIN columnDefs.vals[1]
    /\ last.op = "update_column" /\ last.exc = "GridOptionsBuilderError"

\* the dict a reference handed out by build() points to
ReturnedConfiguration == IF returned = "self.grid_options" THEN grid_options ELSE EmptyDict

\* C5 (as stated): once build() has returned a configuration, no later call on the
\* builder changes the contents of that configuration.
C5_ReturnedConfigurationImmutable ==
    [][returned # "none" => ReturnedConfiguration' = ReturnedConfiguration]_vars

DisabledArgs == {a \in SelectionArgs : a.selection_mode = "disabled"}
CheckboxArgs == {a \in SelectionArgs : a.selection_mode # "disabled" /\ a.use_checkbox}

\* C6 (as stated): after add_grid_selection("disabled") the configuration holds
\* none of the selection keys and no column definition holds a checkbox flag.
C6_DisabledStripsSelection ==
    [][AddGridSelection(DisabledArgs) =>
        /\ (DOMAIN grid_options') \cap SelectionKeys = {}
        /\ \A i \in 1..Len(columnDefs'.vals) : (DOMAIN columnDefs'.vals[i]) \cap CheckboxKeys = {}]_vars

\* C7 (as stated): the selection-related part after a successful
\* add_grid_selection(flags) is the one the same call produces on a builder with
\* the same columns and no earlier add_grid_selection call.
C7_SelectionPureFunctionOfFlags ==
    [][\A a \in SelectionArgs :
        (AddGridSelection({a}) /\ last'.exc = "none")
            => SelectionPart(grid_options')
                 = SelectionPart(add_grid_selection(NoSelection(grid_options), a).grid_options)]_vars

\* C8 (as stated): add_grid_selection with use_checkbox and a mode other than
\* "disabled" never fails, sets suppressRowClickSelection to true whatever the
\* argument says, and puts checkboxSelection and the two header flags on the
\* first column definition, leaving every other definition as it was.
C8_CheckboxOnFirstColumn ==
    [][\A a \in CheckboxArgs :
        AddGridSelection({a}) =>
            /\ last'.exc = "none"
            /\ grid_options'["suppressRowClickSelection"] = TRUE
            /\ Len(columnDefs'.vals) = Len(columnDefs.vals)
            /\ \A i \in 1..Len(columnDefs.vals) :
                IF i = 1
                THEN /\ CheckboxKeys \subseteq DOMAIN columnDefs'.vals[i]
                     /\ columnDefs'.vals[i]["checkboxSelection"] = TRUE
                ELSE columnDefs'.vals[i] = columnDefs.vals[i]]_vars

\* C9 (as stated): after add_pagination(a, n) the pagination keys are exactly the
\* ones add_pagination(a, n) produces on a configuration without pagination keys.
C9_AddPaginationOverwrites ==
    [][\A p \in PaginationArgs :
        AddPagination({p}) =>
            Restrict(grid_options', PaginationKeys)
              = Restrict(add_pagination(Restrict(grid_options, (DOMAIN grid_options) \ PaginationKeys),
                                        p[1], p[2]).grid_options,
                         PaginationKeys)]_vars

\* C10: remove_pagination() never fails, leaves none of the three pagination keys
\* in the configuration, whichever add_pagination variants came before, and
\* leaves every other key as it was.
C10_RemovePaginationStripsAll ==
    [][RemovePagination =>
        /\ last'.exc = "none"
        /\ (DOMAIN grid_options') \cap PaginationKeys = {}
        /\ Restrict(grid_options', (DOMAIN grid_options') \ PaginationKeys)
             = Restrict(grid_options, (DOMAIN grid_options) \ PaginationKeys)]_vars

\* remove_pagination has just removed pagination keys, and keys of the side bar
\* and of the selection are still there
C10_Witness ==
    /\ last.op = "remove_pagination" /\ last.changed
    /\ (DOMAIN grid_options) \cap PaginationKeys = {}
    /\ {"sideBar", "rowSelection"} \subseteq DOMAIN grid_options

----------------------------------------------------------------------------
\* Properties of GridBuilder

\* the arguments other than grid_options, height and update_on are the defaults
OtherwiseDefault(inp) ==
    [inp EXCEPT !.kind = "None", !.raw = EmptyDict, !.height = NoneVal, !.update_on = NoneVal]
        = DefaultInput

\* C3 (as stated): whenever construction succeeds, the columnDefs value of
\* GridBuilder.grid_options is an ordered list, never a mapping keyed by field name.
C3_ColumnDefsIsList ==
    (grid.called /\ grid.exc = "none" /\ "columnDefs" \in DOMAIN grid.obj.grid_options)
        => grid.obj.grid_options["columnDefs"].kind = "list"

\* C4 (as stated): given a raw mapping, or JSON text of one, without a columnDefs
\* key (and valid arguments otherwise), construction succeeds and the
\* configuration has no column definitions.
C4_MissingColumnDefsIsEmpty ==
    (/\ grid.called
     /\ grid.inp.kind \in {"dict", "str"} /\ grid.inp.parses
     /\ "columnDefs" \notin DOMAIN grid.inp.raw
     /\ OtherwiseDefault(grid.inp))
        => /\ grid.exc = "none"
           /\ "columnDefs" \in DOMAIN grid.obj.grid_options
                => grid.obj.grid_options["columnDefs"] = ListOf(<<>>)

\* the triggers the caller asked for: update_on, or its default
CallerTriggers(inp) ==
    IF inp.update_on.isNone THEN <<Trigger("columnVisible")>> ELSE inp.update_on.val

\* a selection-changed trigger, in the plain-name or in the (name, delay) form
NamesSelectionChanged(l) == \E i \in 1..Len(l) : l[i].name = "selectionChanged"

\* some column definition of the configuration carries a checkboxSelection flag
CarriesCheckbox(go) ==
    /\ "columnDefs" \in DOMAIN go
    /\ \E i \in 1..Len(go["columnDefs"].vals) : "checkboxSelection" \in DOMAIN go["columnDefs"].vals[i]

\* C11 (as stated): whenever construction succeeds, the update trigger list is the
\* caller's list with one plain selectionChanged trigger appended if a column
\* definition of the final configuration carries checkboxSelection and the
\* caller's list names no selection-changed trigger in either form, and the
\* caller's list as it is otherwise; so the trigger never appears twice.
C11_SelectionTriggerAppendedOnce ==
    (grid.called /\ grid.exc = "none")
        => grid.obj.update_on
             = IF CarriesCheckbox(grid.obj.grid_options) /\ ~NamesSelectionChanged(CallerTriggers(grid.inp))
               THEN Append(CallerTriggers(grid.inp), Trigger("selectionChanged"))
               ELSE CallerTriggers(grid.inp)

\* the configuration the caller supplied to a construction, given the builder's
\* dict before the call: the builder's, the raw mapping, or none
SuppliedConfiguration(inp, builder_go) ==
    IF inp.kind = "GridOptionsBuilder" THEN builder_go
    ELSE IF inp.kind \in {"dict", "str"} THEN inp.raw
    ELSE EmptyDict

\* C12: for every grid_options kind, a successful construction without a height
\* leaves domLayout = "autoHeight" in the final configuration, and one with a
\* height leaves domLayout as the caller supplied it, or absent.
C12_DomLayoutIffNoHeight ==
    [][(~grid.called /\ grid'.called /\ grid'.exc = "none") =>
        IF grid'.inp.height.isNone
        THEN /\ "domLayout" \in DOMAIN grid'.obj.grid_options
             /\ grid'.obj.grid_options["domLayout"] = "autoHeight"
        ELSE Restrict(grid'.obj.grid_options, {"domLayout"})
               = Restrict(SuppliedConfiguration(grid'.inp, grid_options), {"domLayout"})]_vars

\* a construction with an explicit height has kept the caller's own domLayout
C12_Witness ==
    /\ grid.called /\ grid.exc = "none"
    /\ ~grid.inp.height.isNone
    /\ "domLayout" \in DOMAIN grid.inp.raw
    /\ "domLayout" \in DOMAIN grid.obj.grid_options
    /\ grid.obj.grid_options["domLayout"] = "normal"

\* the kind of a column, from the dtype the frame reports for it
ColumnKind(dtype) ==
    CASE dtype \in {"int64", "float64", "uint8"} -> "numeric"
      [] dtype = "datetime64[ns]" -> "datetime"
      [] dtype = "timedelta64[ns]" -> "duration"
      [] OTHER -> "text"

\* the filter/type pairing of each kind
KindPairing(kind) ==
    CASE kind = "numeric" -> [type |-> "numericColumn", filter |-> "numberColumnFilter"]
      [] kind = "datetime" -> [type |-> "dateColumn", filter |-> "dateColumnFilter"]
      [] kind = "duration" -> [type |-> "timedeltaFormat"]
      [] OTHER -> [type |-> "rightAligned", filter |-> "textColumnFilter"]

\* no grid_options given, and every other argument but the data, the height and
\* update_on at its default
DefaultsFromData(inp) ==
    /\ inp.kind = "None"
    /\ [inp EXCEPT !.data = FrameData, !.height = NoneVal, !.update_on = NoneVal] = DefaultInput

\* C13 (as stated): with no grid_options and data of a supported container,
\* construction succeeds with exactly one column definition per input column,
\* in input column order, each with the filter/type pairing of the column's kind.
C13_DefaultColumnsByKind ==
    (grid.called /\ DefaultsFromData(grid.inp) /\ grid.inp.data.kind \in Convertible)
        => /\ grid.exc = "none"
           /\ Len(grid.obj.grid_options["columnDefs"].vals) = Len(grid.inp.data.columns)
           /\ \A i \in 1..Len(grid.inp.data.columns) :
                /\ grid.obj.grid_options["columnDefs"].vals[i]["field"] = grid.inp.data.columns[i].name
                /\ Restrict(grid.obj.grid_options["columnDefs"].vals[i], {"type", "filter"})
                     = KindPairing(ColumnKind(grid.inp.data.columns[i].dtype))

UpperChar == [f |-> "F", i |-> "I", t |-> "T", a |-> "A", l |-> "L", n |-> "N", o |-> "O", e |-> "E"]

\* the lower-case word w occurs in s, letters compared without regard to case
OccursIn(w, s) ==
    \E i \in 0..(Len(s) - Len(w)) :
        \A k \in 1..Len(w) :
            \/ s[i + k] = w[k]
            \/ w[k] \in DOMAIN UpperChar /\ s[i + k] = UpperChar[w[k]]

\* the code the auto size mode s stands for, -1 for a validation error
AutoSizeCode(s) ==
    IF OccursIn(<<"f", "i", "t">>, s) /\ OccursIn(<<"a", "l", "l">>, s) THEN 2
    ELSE IF OccursIn(<<"f", "i", "t">>, s) THEN 1
    ELSE IF Len(s) = 4 /\ OccursIn(<<"n", "o", "n", "e">>, s) THEN 0
    ELSE -1

\* every argument but columns_auto_size_mode is at its default
OnlyAutoSizeModeGiven(inp) ==
    [inp EXCEPT !.columns_auto_size_mode = DefaultInput.columns_auto_size_mode] = DefaultInput

\* C14: for every auto size mode string, compared case-insensitively, a
\* construction that is valid otherwise yields code 2 if the string contains
\* "fit" and "all" in any order, code 1 if it contains "fit" and not "all", code 0
\* if it is "none", and raises the validation error for every other string; no
\* construction succeeds with another code.
C14_AutoSizeModeCodes ==
    /\ (grid.called /\ OnlyAutoSizeModeGiven(grid.inp))
        => IF AutoSizeCode(grid.inp.columns_auto_size_mode) = -1
           THEN grid.exc = "GridBuilderError"
           ELSE grid.exc = "none"
    /\ (grid.called /\ grid.exc = "none")
        => grid.obj.columns_auto_size_mode = AutoSizeCode(grid.inp.columns_auto_size_mode)

\* "AllFIT": the words in the other order, in mixed case, without a separator
C14_Witness ==
    /\ grid.called /\ grid.exc = "none"
    /\ grid.inp.columns_auto_size_mode = <<"A", "l", "l", "F", "I", "T">>
    /\ grid.obj.columns_auto_size_mode = 2

\* the policies the decoder's signature names
ErrorPolicies == {"raise", "ignore", "coerce"}

\* every argument but errors and convert_to_original_types is at its default
OnlyErrorPolicyGiven(inp) ==
    [inp EXCEPT !.errors = DefaultInput.errors,
                !.convert_to_original_types = DefaultInput.convert_to_original_types] = DefaultInput

\* C15 (as stated): with conversion enabled each of "raise", "ignore" and "coerce"
\* is accepted and kept as the policy and every other value raises the
\* validation error; with conversion disabled every value is accepted and kept.
C15_ConversionErrorPolicy ==
    (grid.called /\ OnlyErrorPolicyGiven(grid.inp))
        => IF grid.inp.convert_to_original_types /\ LowerOf(grid.inp.errors) \notin ErrorPolicies
           THEN grid.exc = "GridBuilderError"
           ELSE grid.exc = "none" /\ grid.obj.errors = LowerOf(grid.inp.errors)

----------------------------------------------------------------------------
\* GridReturn and generate_response (grid_return.py)

\* GridReturn.__new__: the four instance attributes
GridReturn(data, selected_data, selected_rows, selected_items) ==
    [data_ |-> data, sel_data |-> selected_data, sel_row |-> selected_rows,
     sel_items |-> selected_items]

\* self.<name> inside a method of GridReturn: an instance attribute, or AttributeError
GetAttr(obj, name) == IF name \in DOMAIN obj THEN Ok(obj[name]) ELSE Bad("AttributeError")

\* the properties and the item access of GridReturn
GridReturn_data(obj) == GetAttr(obj, "data_")
GridReturn_selected_data(obj) == GetAttr(obj, "sel_data")
GridReturn_selected_rows(obj) == GetAttr(obj, "selected")
GridReturn_selected_items(obj) == GetAttr(obj, "state")
\* s.startswith(prefix)
StartsWith(s, prefix) == Len(s) >= Len(prefix) /\ SubSeq(s, 1, Len(prefix)) = prefix
GridReturn_getitem(obj, key) ==
    IF Lower(key) = <<"d", "a", "t", "a">> THEN GetAttr(obj, "data_")
    ELSE IF StartsWith(Lower(key), <<"s", "e", "l", "e", "c", "t">>) THEN GetAttr(obj, "selected")
    ELSE IF StartsWith(Lower(key), <<"c", "o", "l", "u", "m", "n">>) THEN GetAttr(obj, "state")
    ELSE Bad("KeyError")

\* the dtype pandas infers for a column of JSON values that came from dtype d
JsonDtype(d) ==
    IF d \in {"int64", "uint8"} THEN "int64"
    ELSE IF d \in {"float64", "bool"} THEN d
    ELSE "object"

\* pd.DataFrame(rowData), for row mappings with the columns of the original data
FrameOf(data, rowData) ==
    [kind |-> "DataFrame",
     columns |-> [c \in 1..Len(data.columns) |->
                    [data.columns[c] EXCEPT !.dtype = JsonDtype(data.columns[c].dtype)]],
     rows |-> rowData]

\* the frame with the dtypes of the original data, and as another container
WithDtypesOf(data, frame) == [frame EXCEPT !.columns = data.columns]
AsKind(kind, frame) == [frame EXCEPT !.kind = kind]

\* frame.astype(dtypes, errors=errors); castable says whether the values convert
astype(frame, data, errors, castable) ==
    IF errors \notin {"raise", "ignore"} THEN Bad("ValueError")
    ELSE IF castable THEN Ok(WithDtypesOf(data, frame))
    ELSE IF errors = "raise" THEN Bad("ValueError")
    ELSE Ok(frame)

\* a decoder that hands back the working frame, whatever the original container
Reshape_frame_only(frame, data, convert_to_original_types, errors, castable) == Ok(frame)

\* the reshape of the frame to the container of the original data
Reshape(frame, data, convert_to_original_types, errors, castable) ==
    IF data.kind = "DataFrame"
    THEN (IF convert_to_original_types THEN astype(frame, data, errors, castable) ELSE Ok(frame))
    ELSE IF data.kind = "Table"
    THEN (IF ~convert_to_original_types THEN Ok(AsKind("Table", frame))
          ELSE IF castable THEN Ok(AsKind("Table", WithDtypesOf(data, frame)))
          ELSE Bad("ArrowInvalid"))
    ELSE IF data.kind = "ndarray"
    THEN (IF ~convert_to_original_types THEN Ok(AsKind("ndarray", frame))
          ELSE IF castable THEN Ok(AsKind("ndarray", WithDtypesOf(data, frame)))
          ELSE Bad("ValueError"))
    ELSE IF data.kind = "dict" THEN Ok(AsKind("dict", frame))
    ELSE IF data.kind = "str" THEN Ok(AsKind("str", frame))
    ELSE Ok(frame)

\* a decoder without the short cut for a response that has no rows
generate_response_without_short_cut(component_value, data, convert_to_original_types, errors) ==
    LET payload == component_value.val
        frame == FrameOf(data, payload.rowData)
        shaped == Reshape(frame, data, convert_to_original_types, errors, payload.castable)
        missing == {"selectedData", "selectedRows", "selectedItems"} \ payload.keys
        fail(exc) == [exc |-> exc, obj |-> NoObj]
    IN  IF component_value.kind = "None"
        THEN [exc |-> "none", obj |-> GridReturn(data, NoneVal, NoneVal, NoneVal)]
        ELSE IF component_value.kind = "str" /\ ~component_value.parses
        THEN fail("JSONDecodeError")
        ELSE IF "rowData" \notin payload.keys
        THEN fail("KeyError")
        ELSE IF shaped.exc # "none"
        THEN fail(shaped.exc)
        ELSE IF missing # {}
        THEN fail("KeyError")
        ELSE [exc |-> "none",
              obj |-> GridReturn(shaped.val, Some(payload.selectedData),
                                 Some(payload.selectedRows), Some(payload.selectedItems))]

\* component_value: None, the payload mapping, or JSON text of it.  A payload is
\* [keys, rowData, castable, selectedData, selectedRows, selectedItems]: keys says
\* which of the four entries the mapping has.
generate_response(component_value, data, convert_to_original_types, errors) ==
    LET payload == component_value.val
        frame == FrameOf(data, payload.rowData)
        shaped == Reshape(frame, data, convert_to_original_types, errors, payload.castable)
        missing == {"selectedData", "selectedRows", "selectedItems"} \ payload.keys
        fail(exc) == [exc |-> exc, obj |-> NoObj]
    IN  IF component_value.kind = "None"
        THEN [exc |-> "none", obj |-> GridReturn(data, NoneVal, NoneVal, NoneVal)]
        ELSE IF component_value.kind = "str" /\ ~component_value.parses
        THEN fail("JSONDecodeError")
        ELSE IF "rowData" \notin payload.keys
        THEN fail("KeyError")
        ELSE IF Len(frame.rows) = 0
        THEN [exc |-> "none", obj |-> GridReturn(data, NoneVal, NoneVal, NoneVal)]
        ELSE IF shaped.exc # "none"
        THEN fail(shaped.exc)
        ELSE IF missing # {}
        THEN fail("KeyError")
        ELSE [exc |-> "none",
              obj |-> GridReturn(shaped.val, Some(payload.selectedData),
                                 Some(payload.selectedRows), Some(payload.selectedItems))]

----------------------------------------------------------------------------
\* The caller of the decoder: ag_grid hands generate_response the widget's
\* response and the original data, and the script reads the GridReturn

\* JSON text of records, and a container that is none of the five supported
StringData ==
    [kind |-> "str",
     columns |-> <<[name |-> "id", is_str |-> TRUE, dtype |-> "int64"]>>,
     rows |-> <<<<"1">>, <<"2">>>>]
ListData ==
    [kind |-> "list",
     columns |-> <<[name |-> "0", is_str |-> FALSE, dtype |-> "object"]>>,
     rows |-> <<<<"x">>>>]
SupportedKinds == {"DataFrame", "Table", "ndarray", "dict", "str"}
DecoderData == {FrameData, TableData, ArrayData, DictData, StringData, ListData}

\* what the widget reports of the data: no row, or its first row, with the
\* selection entries the front end has put in
SelectionEntries == {"selectedData", "selectedRows", "selectedItems"}
PayloadKeySets ==
    {{"rowData"} \cup SelectionEntries, {"rowData"}, {"rowData", "selectedData", "selectedRows"},
     SelectionEntries}
Payloads(data) ==
    {[keys |-> ks, rowData |-> rd, castable |-> c,
      selectedData |-> <<"data 0">>, selectedRows |-> <<"row 0">>, selectedItems |-> <<"item 0">>] :
        ks \in PayloadKeySets, rd \in {<<>>, <<data.rows[1]>>}, c \in BOOLEAN}
ComponentValues(data) ==
    {[kind |-> "None"]}
    \cup {[kind |-> k, parses |-> TRUE, val |-> p] : k \in {"dict", "str"}, p \in Payloads(data)}
    \cup {[kind |-> "str", parses |-> FALSE]}

\* the ways the script reads the result
Reads == {"data", "selected_data", "selected_rows", "selected_items"}
ItemKeys ==
    {<<"d", "a", "t", "a">>, <<"D", "a", "t", "a">>, <<"s", "e", "l", "e", "c", "t", "e", "d">>,
     <<"S", "E", "L", "E", "C", "T">>, <<"c", "o", "l", "u", "m", "n", "s">>, <<"r", "o", "w", "s">>}

NoRead == [how |-> "none"]

GenerateResponse(D, P) ==
    /\ ~response.called
    /\ \E data \in D, convert \in BOOLEAN, errors \in P :
        \E component_value \in ComponentValues(data) :
            LET r == generate_response(component_value, data, convert, errors)
            IN  /\ response' = [called |-> TRUE, component_value |-> component_value,
                                data |-> data, convert_to_original_types |-> convert,
                                errors |-> errors, exc |-> r.exc, obj |-> r.obj, read |-> NoRead]
                /\ UNCHANGED <<grid_options, returned, last, added, grid, tree, js, call>>

\* result.data, result.selected_data, result.selected_rows, result.selected_items
ReadProperty ==
    /\ response.called /\ response.exc = "none"
    /\ \E how \in Reads :
        LET r == CASE how = "data" -> GridReturn_data(response.obj)
                   [] how = "selected_data" -> GridReturn_selected_data(response.obj)
                   [] how = "selected_rows" -> GridReturn_selected_rows(response.obj)
                   [] how = "selected_items" -> GridReturn_selected_items(response.obj)
        IN  /\ response' = [response EXCEPT !.read = [how |-> how, exc |-> r.exc, val |-> r.val]]
            /\ UNCHANGED <<grid_options, returned, last, added, grid, tree, js, call>>

\* result[key]
ReadItem ==
    /\ response.called /\ response.exc = "none"
    /\ \E key \in ItemKeys :
        LET r == GridReturn_getitem(response.obj, key)
        IN  /\ response' = [response EXCEPT !.read = [how |-> "item", key |-> key,
                                                      exc |-> r.exc, val |-> r.val]]
            /\ UNCHANGED <<grid_options, returned, last, added, grid, tree, js, call>>

\* SpecReturn: one response decoded, and the result read
NextReturn ==
    \/ GenerateResponse(DecoderData, ErrorPolicies)
    \/ ReadProperty
    \/ ReadItem

SpecReturn == Init /\ [][NextReturn]_vars

----------------------------------------------------------------------------
\* Properties of the decoder

\* the response is a mapping (given as such or as JSON text) that has rowData
HasRowData(cv) == cv.kind \in {"dict", "str"} /\ cv.parses /\ "rowData" \in cv.val.keys
\* no response, or one without rows
EmptyResponse(cv) == cv.kind = "None" \/ (HasRowData(cv) /\ cv.val.rowData = <<>>)
NonEmptyResponse(cv) == HasRowData(cv) /\ cv.val.rowData # <<>>

\* C16: for every supported input kind, a missing response and a response whose
\* rowData is empty give a result whose data is the original input and whose
\* three selection fields are None, whether the response has selection entries
\* or not; reading the data gives the original input.
C16_EmptyResponseReturnsInput ==
    (/\ response.called
     /\ response.data.kind \in SupportedKinds
     /\ EmptyResponse(response.component_value))
        => /\ response.exc = "none"
           /\ response.obj.data_ = response.data
           /\ response.obj.sel_data = NoneVal
           /\ response.obj.sel_row = NoneVal
           /\ response.obj.sel_items = NoneVal
           /\ response.read.how = "data"
                => response.read.exc = "none" /\ response.read.val = response.data

\* JSON text with an empty rowData and all three selection entries, for an
\* array, type conversion requested: the array has come back and has been read
C16_Witness ==
    /\ response.called /\ response.exc = "none"
    /\ response.data = ArrayData
    /\ response.convert_to_original_types
    /\ response.component_value.kind = "str"
    /\ HasRowData(response.component_value)
    /\ response.component_value.val.rowData = <<>>
    /\ SelectionEntries \subseteq response.component_value.val.keys
    /\ response.obj.data_ = ArrayData
    /\ response.read.how = "data"

\* the reshape cannot fail: no cast is asked for, or the values cast and the
\* policy is one astype knows
ReshapeCannotFail(r) ==
    \/ ~r.convert_to_original_types
    \/ r.data.kind \in {"dict", "str"}
    \/ r.component_value.val.castable /\ r.errors \in {"raise", "ignore"}

\* C17: for each supported container kind and every non-empty response, with or
\* without type conversion, the data of a returned result has the container
\* kind of the original input; and a result is returned whenever the response
\* has its selection entries and the reshape cannot fail.
C17_SameContainerKind ==
    (/\ response.called
     /\ response.data.kind \in SupportedKinds
     /\ NonEmptyResponse(response.component_value))
        => /\ response.exc = "none" => response.obj.data_.kind = response.data.kind
           /\ (/\ SelectionEntries \subseteq response.component_value.val.keys
               /\ ReshapeCannotFail(response))
                => response.exc = "none"

\* an array decoded from a non-empty response with type conversion: the result
\* is an array again, with the rows of the response
C17_Witness ==
    /\ response.called /\ response.exc = "none"
    /\ response.data = ArrayData
    /\ response.convert_to_original_types
    /\ NonEmptyResponse(response.component_value)
    /\ response.obj.data_.kind = "ndarray"
    /\ response.obj.data_.rows = response.component_value.val.rowData

\* the read is one of the selection: a selection property, or a "select..." item
SelectionRead(read) ==
    \/ read.how \in {"selected_data", "selected_rows", "selected_items"}
    \/ read.how = "item" /\ StartsWith(Lower(read.key), <<"s", "e", "l", "e", "c", "t">>)

\* C18 (as stated): for every non-empty response, reading selected_data,
\* selected_rows, selected_items or a "select..." item of the result does not
\* fail and gives the value the response carried under selectedData,
\* selectedRows, selectedItems and selectedRows.
C18_SelectionPassedThrough ==
    (/\ response.called /\ response.exc = "none"
     /\ NonEmptyResponse(response.component_value)
     /\ SelectionRead(response.read))
        => /\ response.read.exc = "none"
           /\ response.read.val
                = CASE response.read.how = "selected_data" -> response.obj.sel_data
                    [] response.read.how = "selected_items" -> response.obj.sel_items
                    [] OTHER -> response.obj.sel_row
           /\ response.obj.sel_data = Some(response.component_value.val.selectedData)
           /\ response.obj.sel_row = Some(response.component_value.val.selectedRows)
           /\ response.obj.sel_items = Some(response.component_value.val.selectedItems)

----------------------------------------------------------------------------
\* walk_grid_options on a configuration tree.  A node carries its type:
\*   [kind |-> "dict", keys |-> <<...>>, vals |-> <<...>>]   a mapping, in key order
\*   [kind |-> "list", vals |-> <<...>>]                     a list
\*   [kind |-> "JsCode", code |-> token], [kind |-> "str", val |-> s],
\*   [kind |-> "int", num |-> n]                             the leaves

DictNode(keys, vals) == [kind |-> "dict", keys |-> keys, vals |-> vals]
ListNode(vals) == [kind |-> "list", vals |-> vals]
JsCodeLeaf(code) == [kind |-> "JsCode", code |-> code]
StrLeaf(s) == [kind |-> "str", val |-> s]
IntLeaf(n) == [kind |-> "int", num |-> n]

IsContainer(node) == node.kind \in {"dict", "list"}

\* the state of a walk: the exception raised, if any, the node as the walk has
\* left it, and the values `function` has been called with, in call order
Walked(exc, node, applied) == [exc |-> exc, node |-> node, applied |-> applied]

\* grid_opts[k] for the k of iteration i: the key at position i of a mapping;
\* for a list k is the element itself, which indexes the list only if it is
\* an integer within range
Subscript(node, i) ==
    IF node.kind = "dict" THEN [exc |-> "none", pos |-> i]
    ELSE IF node.vals[i].kind # "int" THEN [exc |-> "TypeError", pos |-> 0]
    ELSE IF node.vals[i].num \notin 0..(Len(node.vals) - 1) THEN [exc |-> "IndexError", pos |-> 0]
    ELSE [exc |-> "none", pos |-> node.vals[i].num + 1]

RECURSIVE walk_tree(_), walk_from(_, _, _), walk_elements(_, _, _)

\* for elem in grid_opts[k]: walk_grid_options(elem, function), from element i on
walk_elements(list, i, applied) ==
    IF i > Len(list.vals) THEN Walked("none", list, applied)
    ELSE LET r == walk_tree(list.vals[i])
             list1 == [list EXCEPT !.vals[i] = r.node]
         IN  IF r.exc # "none" THEN Walked(r.exc, list1, applied \o r.applied)
             ELSE walk_elements(list1, i + 1, applied \o r.applied)

\* the loop `for _, k in enumerate(grid_opts)`, from iteration i on
walk_from(node, i, applied) ==
    IF i > Len(node.vals) THEN Walked("none", node, applied)
    ELSE LET sub == Subscript(node, i)
             v == node.vals[sub.pos]
         IN  IF sub.exc # "none" THEN Walked(sub.exc, node, applied)
             ELSE IF v.kind = "dict"
             THEN LET r == walk_tree(v)
                      node1 == [node EXCEPT !.vals[sub.pos] = r.node]
                  IN  IF r.exc # "none" THEN Walked(r.exc, node1, applied \o r.applied)
                      ELSE walk_from(node1, i + 1, applied \o r.applied)
             ELSE IF v.kind = "list"
             THEN LET r == walk_elements(v, 1, <<>>)
                      \* the else of the for: grid_opts[k] = function(grid_opts[k])
                      node1 == [node EXCEPT !.vals[sub.pos] = r.node]
                      node2 == [node EXCEPT !.vals[sub.pos] = replace_js_code(r.node)]
                  IN  IF r.exc # "none" THEN Walked(r.exc, node1, applied \o r.applied)
                      ELSE walk_from(node2, i + 1, (applied \o r.applied) \o <<r.node>>)
             ELSE walk_from(node, i + 1, applied)

\* walk_grid_options(grid_opts, lambda v: v.code if isinstance(v, JsCode) else v)
walk_tree(node) ==
    IF IsContainer(node) THEN walk_from(node, 1, <<>>) ELSE Walked("none", node, <<>>)

\* the configurations handed to the walk: a JsCode object, a string and two
\* integers as leaves, in mappings and lists nested up to MaxDepth
Token == "--x_x--0_0--f--x_x--0_0--"
Leaves == {JsCodeLeaf(Token), StrLeaf("s"), IntLeaf(0), IntLeaf(5)}
RECURSIVE Trees(_)
Trees(depth) ==
    IF depth = 0 THEN Leaves \cup {DictNode(<<>>, <<>>), ListNode(<<>>)}
    ELSE LET below == Trees(depth - 1)
         IN  below
             \cup {DictNode(<<"k">>, <<t>>) : t \in below}
             \cup {ListNode(<<t>>) : t \in below}
             \cup {DictNode(<<"j", "k">>, <<l, t>>) : l \in Leaves, t \in below}
             \cup {ListNode(<<l, t>>) : l \in Leaves, t \in below}
\* obj.grid_options is a mapping
Configurations(depth) == {t \in Trees(depth) : t.kind = "dict"}

\* GridBuilder.__new__'s call of walk_grid_options on obj.grid_options
WalkGridOptions(T) ==
    /\ ~tree.called
    /\ \E t \in T :
        LET r == walk_tree(t)
        IN  /\ tree' = [called |-> TRUE, before |-> t, exc |-> r.exc, after |-> r.node,
                        applied |-> r.applied]
            /\ UNCHANGED <<grid_options, returned, last, added, grid, response, js, call>>

\* SpecWalk: the walk over one configuration tree
NextWalk == WalkGridOptions(Configurations(MaxDepth))

SpecWalk == Init /\ [][NextWalk]_vars

----------------------------------------------------------------------------
\* Properties of the walk

\* the tree with every JsCode leaf replaced by its token string
RECURSIVE Replaced(_)
Replaced(node) ==
    IF IsContainer(node) THEN [node EXCEPT !.vals = [i \in 1..Len(node.vals) |-> Replaced(node.vals[i])]]
    ELSE IF node.kind = "JsCode" THEN StrLeaf(node.code)
    ELSE node

\* the leaves of a tree, and how many of them there are
RECURSIVE LeafCount(_), LeafCountFrom(_, _)
LeafCountFrom(vals, i) ==
    IF i > Len(vals) THEN 0 ELSE LeafCount(vals[i]) + LeafCountFrom(vals, i + 1)
LeafCount(node) == IF IsContainer(node) THEN LeafCountFrom(node.vals, 1) ELSE 1

\* C19 (as stated): the walk of a configuration tree of any depth does not fail,
\* leaves the tree with every JsCode leaf replaced by its token string and
\* everything else unchanged, and has applied the function to leaves only, once
\* for each leaf of the tree.
C19_WalkReplacesEveryJsCodeLeaf ==
    tree.called
        => /\ tree.exc = "none"
           /\ tree.after = Replaced(tree.before)
           /\ \A i \in 1..Len(tree.applied) : ~IsContainer(tree.applied[i])
           /\ Len(tree.applied) = LeafCount(tree.before)

----------------------------------------------------------------------------
\* JsCode (code.py).  A text is a sequence of characters; each re.sub is a scan
\* from the left that replaces the match starting at the current position, if
\* there is one, and copies the character otherwise.

\* \s
Whitespace == {" ", "\t", "\n", "\r", "\f"}

\* the character at position i, or "" past the end of the text
At(s, i) == IF i \in 1..Len(s) THEN s[i] ELSE ""

\* the first position from i on whose character is not in the class
RECURSIVE SkipWhile(_, _, _)
SkipWhile(s, i, class) ==
    IF i <= Len(s) /\ s[i] \in class THEN SkipWhile(s, i + 1, class) ELSE i

\* a match of [ \t]*\(([a-zA-Z, ]*)\)[ \t]*=> starting at i: the position after
\* it (0 if there is none) and its group
LambdaMatch(s, i) ==
    LET Blank == {" ", "\t"}
        Letters ==
            {"a", "b", "c", "d", "e", "f", "g", "h", "i", "j", "k", "l", "m", "n", "o", "p",
             "q", "r", "s", "t", "u", "v", "w", "x", "y", "z", "A", "B", "C", "D", "E", "F",
             "G", "H", "I", "J", "K", "L", "M", "N", "O", "P", "Q", "R", "S", "T", "U", "V",
             "W", "X", "Y", "Z"}
        open == SkipWhile(s, i, Blank)
        close == SkipWhile(s, open + 1, Letters \cup {",", " "})
        arrow == SkipWhile(s, close + 1, Blank)
    IN  IF At(s, open) = "(" /\ At(s, close) = ")" /\ At(s, arrow) = "=" /\ At(s, arrow + 1) = ">"
        THEN [end |-> arrow + 2, group |-> SubSeq(s, open + 1, close - 1)]
        ELSE [end |-> 0, group |-> <<>>]

\* re.sub(lambda_pattern, r"function(\1)", code), from position i on
RECURSIVE code_no_lambda(_, _)
code_no_lambda(s, i) ==
    IF i > Len(s) THEN <<>>
    ELSE LET m == LambdaMatch(s, i)
         IN  IF m.end > 0
             THEN <<"f", "u", "n", "c", "t", "i", "o", "n", "(">> \o m.group \o <<")">>
                     \o code_no_lambda(s, m.end)
             ELSE <<s[i]>> \o code_no_lambda(s, i + 1)

\* a match of \/\*[\s\S]*?\*\/|([^\\:]|^)\/\/.*$ (MULTILINE) starting at i.  The
\* block comment ends at the first "*/"; the line comment ends at the next
\* newline or at the end of the text.
CommentMatch(s, i) ==
    LET closes == {k \in (i + 2)..Len(s) : At(s, k) = "*" /\ At(s, k + 1) = "/"}
        LineEnd(j) == SkipWhile(s, j, {s[k] : k \in 1..Len(s)} \ {"\n"})
    IN  IF At(s, i) = "/" /\ At(s, i + 1) = "*" /\ closes # {}
        THEN [end |-> (CHOOSE k \in closes : \A other \in closes : k <= other) + 2,
              group |-> <<>>]
        ELSE IF At(s, i) \notin {"\\", ":", ""} /\ At(s, i + 1) = "/" /\ At(s, i + 2) = "/"
        THEN [end |-> LineEnd(i + 3), group |-> <<s[i]>>]
        ELSE IF (i = 1 \/ At(s, i - 1) = "\n") /\ At(s, i) = "/" /\ At(s, i + 1) = "/"
        THEN [end |-> LineEnd(i + 2), group |-> <<>>]
        ELSE [end |-> 0, group |-> <<>>]

\* re.sub(js_comments, r"\1", code_no_lambda), from position i on
RECURSIVE code_no_comment(_, _)
code_no_comment(s, i) ==
    IF i > Len(s) THEN <<>>
    ELSE LET m == CommentMatch(s, i)
         IN  IF m.end > 0 THEN m.group \o code_no_comment(s, m.end)
             ELSE <<s[i]>> \o code_no_comment(s, i + 1)

\* a match of \s+(?=...) starting at i: the longest run of whitespace from i
\* after which the lookahead holds, that is, after which the text holds an even
\* number of quotes up to some end of line
SpacesMatch(s, i) ==
    LET EvenQuotesAhead(j) ==
            \E e \in j..(Len(s) + 1) :
                /\ e = Len(s) + 1 \/ s[e] = "\n"
                /\ Cardinality({k \in j..(e - 1) : s[k] \in {"'", "\""}}) % 2 = 0
        ends == {j \in (i + 1)..SkipWhile(s, i, Whitespace) : EvenQuotesAhead(j)}
    IN  IF ends = {} THEN 0 ELSE CHOOSE j \in ends : \A other \in ends : j >= other

\* re.sub(match_js_spaces, " ", code_no_comment), from position i on
RECURSIVE code_no_spaces(_, _)
code_no_spaces(s, i) ==
    IF i > Len(s) THEN <<>>
    ELSE IF SpacesMatch(s, i) > 0 THEN <<" ">> \o code_no_spaces(s, SpacesMatch(s, i))
    ELSE <<s[i]>> \o code_no_spaces(s, i + 1)

\* re.sub(r"\s+|\r\s*|\n+", " ", code_no_spaces), from position i on
RECURSIVE one_line_code(_, _)
one_line_code(s, i) ==
    IF i > Len(s) THEN <<>>
    ELSE IF s[i] \in Whitespace THEN <<" ">> \o one_line_code(s, SkipWhile(s, i, Whitespace))
    ELSE <<s[i]>> \o one_line_code(s, i + 1)

placeholder == <<"-", "-", "x", "_", "x", "-", "-", "0", "_", "0", "-", "-">>

\* JsCode.__init__
JsCode(code) ==
    LET no_lambda == code_no_lambda(code, 1)
        no_comment == code_no_comment(no_lambda, 1)
        no_spaces == code_no_spaces(no_comment, 1)
    IN  [original_code |-> code,
         injected_code |-> placeholder \o one_line_code(no_spaces, 1) \o placeholder]

\* s.replace(old, ""), from position i on
RECURSIVE Remove(_, _, _)
Remove(s, old, i) ==
    IF i > Len(s) THEN <<>>
    ELSE IF i + Len(old) - 1 <= Len(s) /\ SubSeq(s, i, i + Len(old) - 1) = old
    THEN Remove(s, old, i + Len(old))
    ELSE <<s[i]>> \o Remove(s, old, i + 1)

\* the code property and one_liner()
JsCode_code(obj) == obj.injected_code
one_liner(obj) == Remove(obj.injected_code, placeholder, 1)

\* script texts: up to MaxPieces pieces of script, joined
ScriptPieces ==
    {<<"(", "x", ")">>, <<"=", ">">>, <<" ">>, <<"\n">>, <<"/", "/">>, <<"/", "*">>,
     <<"*", "/">>, <<"'">>, <<"x">>, <<":">>}
RECURSIVE Scripts(_)
Scripts(n) ==
    IF n = 0 THEN {<<>>}
    ELSE Scripts(n - 1) \cup {s \o p : s \in Scripts(n - 1), p \in ScriptPieces}

\* js_code = JsCode(script)
MakeJsCode(S) ==
    /\ ~js.called
    /\ \E script \in S :
          js' = [called |-> TRUE, again |-> FALSE, script |-> script, first |-> JsCode(script),
                 second |-> JsCode(script)]
    /\ UNCHANGED <<grid_options, returned, last, added, grid, response, tree, call>>

\* JsCode(js_code.one_liner())
MakeJsCodeAgain ==
    /\ js.called /\ ~js.again
    /\ js' = [js EXCEPT !.again = TRUE, !.second = JsCode(one_liner(js.first))]
    /\ UNCHANGED <<grid_options, returned, last, added, grid, response, tree, call>>

NextJsCode ==
    \/ MakeJsCode(Scripts(MaxPieces))
    \/ MakeJsCodeAgain

SpecJsCode == Init /\ [][NextJsCode]_vars

\* C20: the code property of a JsCode begins and ends with the placeholder and
\* holds no newline, and a JsCode built from the one_liner() of a JsCode has the
\* same code property as the first one.
C20_JsCodeIdempotent ==
    js.called =>
        LET code == JsCode_code(js.first)
            n == Len(placeholder)
        IN  /\ Len(code) >= 2 * n
            /\ SubSeq(code, 1, n) = placeholder
            /\ SubSeq(code, Len(code) - n + 1, Len(code)) = placeholder
            /\ \A k \in 1..Len(code) : code[k] # "\n"
            /\ js.again => JsCode_code(js.second) = code

----------------------------------------------------------------------------
\* ag_grid (__init__.py): construct the GridBuilder, call the component, decode
\* its response.  The branch that returns the grid itself needs "return_mode" in
\* kwargs, which a named parameter of ag_grid never is.

\* a try block that catches the two builder errors only
reraise_builder_errors_only(exc) ==
    IF exc \in {"none", "GridBuilderError", "GridOptionsBuilderError"}
    THEN (IF exc = "none" THEN "none" ELSE "GridBuilderError")
    ELSE exc

\* except (GridBuilderError, GridOptionsBuilderError, Exception) as err:
\*     raise GridBuilderError(err)
reraise_as_builder_error(exc) == IF exc = "none" THEN "none" ELSE "GridBuilderError"

\* a text is the sequence of its pieces; + is concatenation
Hint == <<". If using custom JS Code, set allow_unsafe_js to True.">>

\* a handler that appends the note to every marshalling error
reraise_with_note_always(args, allow_unsafe_js) == <<args[1] \o Hint>> \o Tail(args)

\* args = list(err.args); if not grid.allow_unsafe_js: args[0] += "..."
reraise_with_note(args, allow_unsafe_js) ==
    IF ~allow_unsafe_js THEN <<args[1] \o Hint>> \o Tail(args) ELSE args

\* what the component call does: it returns the widget's response, or raises a
\* MarshallComponentException whose first argument is the message, or raises
\* another streamlit error
MarshallArgs ==
    {<<<<"Argument 'x' needs a label">>>>,
     <<<<"Could not convert component args to JSON">>, <<"TypeError">>>>}
ComponentOutcomes(data) ==
    {[kind |-> "returned", value |-> v] : v \in ComponentValues(data)}
    \cup {[kind |-> "raised", exc |-> "MarshallComponentException", args |-> a] :
            a \in MarshallArgs}
    \cup {[kind |-> "raised", exc |-> "StreamlitAPIException", args |-> <<<<"duplicate key">>>>]}

\* the calls of ag_grid: one that fails in each step of the construction and the
\* ones that pass them all, with unsafe scripts allowed and not
AgGridInputs ==
    {[i EXCEPT !.allow_unsafe_js = b] :
        b \in BOOLEAN,
        i \in {[DefaultInput EXCEPT !.data = d] : d \in DataInputs}
              \cup {[DefaultInput EXCEPT !.kind = "GridOptionsBuilder"],
                    [DefaultInput EXCEPT !.columns_auto_size_mode = <<"a", "l", "l">>],
                    [DefaultInput EXCEPT !.return_mode = <<"s", "o", "r", "t">>],
                    [DefaultInput EXCEPT !.errors = "coerce"],
                    [DefaultInput EXCEPT !.errors = "RAISE"],
                    [DefaultInput EXCEPT !.theme = "dark"],
                    [DefaultInput EXCEPT !.excel_export_mode = "auto"],
                    [DefaultInput EXCEPT !.custom_css = [kind |-> "int"]],
                    [DefaultInput EXCEPT !.custom_css = [kind |-> "str", parses |-> FALSE]],
                    [DefaultInput EXCEPT !.kind = "list"],
                    [DefaultInput EXCEPT !.kind = "str", !.parses = FALSE]}
              \cup {[DefaultInput EXCEPT !.kind = "dict", !.raw = m, !.height = h] :
                        m \in RawMappings, h \in Heights}}

\* the try block around GridBuilder(...)
AgGridConstruct(I) ==
    /\ call.pc = "idle" /\ ~grid.called
    /\ \E inp \in I :
        LET r == GridBuilder_new(inp, grid_options)
            exc == reraise_as_builder_error(r.exc)
        IN  /\ grid' = [called |-> TRUE, inp |-> inp, exc |-> r.exc, obj |-> r.obj,
                        data |-> inp.data,   \* the frame is made with ensure_copy=True
                        raw |-> r.raw, update_on |-> r.update_on]
            /\ grid_options' = r.builder
            /\ last' = [op |-> "GridBuilder", exc |-> r.exc,
                        ret |-> IF r.exc = "none" THEN "obj" ELSE "none",
                        changed |-> r.builder # grid_options]
            /\ call' = [pc |-> IF exc = "none" THEN "built" ELSE "raised", exc |-> exc,
                        args |-> <<>>, invoked |-> FALSE, outcome |-> [kind |-> "none"]]
            /\ UNCHANGED <<returned, added, response, tree, js>>

\* the try block around _component_func(...)
AgGridRender ==
    /\ call.pc = "built"
    /\ \E out \in ComponentOutcomes(grid.inp.data) :
        call' = IF out.kind = "returned"
                THEN [call EXCEPT !.pc = "rendered", !.invoked = TRUE, !.outcome = out]
                ELSE [call EXCEPT !.pc = "raised", !.invoked = TRUE, !.outcome = out,
                                  !.exc = out.exc,
                                  !.args = IF out.exc = "MarshallComponentException"
                                           THEN reraise_with_note(out.args, grid.obj.allow_unsafe_js)
                                           ELSE out.args]
    /\ UNCHANGED <<grid_options, returned, last, added, grid, response, tree, js>>

\* return generate_response(component_value, data, ...)
AgGridDecode ==
    /\ call.pc = "rendered"
    /\ LET r == generate_response(call.outcome.value, grid.inp.data,
                                  grid.obj.convert_to_original_types, grid.obj.errors)
       IN  /\ response' = [called |-> TRUE, component_value |-> call.outcome.value,
                           data |-> grid.inp.data,
                           convert_to_original_types |-> grid.obj.convert_to_original_types,
                           errors |-> grid.obj.errors, exc |-> r.exc, obj |-> r.obj,
                           read |-> NoRead]
           /\ call' = [call EXCEPT !.pc = IF r.exc = "none" THEN "returned" ELSE "raised",
                                   !.exc = r.exc]
    /\ UNCHANGED <<grid_options, returned, last, added, grid, tree, js>>

\* SpecPipeline: one call of ag_grid
NextPipeline ==
    \/ AgGridConstruct(AgGridInputs)
    \/ AgGridRender
    \/ AgGridDecode

SpecPipeline == Init /\ [][NextPipeline]_vars

----------------------------------------------------------------------------
\* Properties of ag_grid

\* every step of the construction passes: the serialization of the data, the
\* six option validators, the grid options and the update triggers
StepsSucceed(inp, builder_go) ==
    LET opts == GridOptionsOf(inp, builder_go)
    IN  /\ _serialize_data(inp.data).exc = "none"
        /\ _process_auto_size_mode(Lower(inp.columns_auto_size_mode)).exc = "none"
        /\ _process_return_mode(Lower(inp.return_mode)).exc = "none"
        /\ _process_conversion_errors(inp.convert_to_original_types, LowerOf(inp.errors)).exc = "none"
        /\ _process_theme(LowerOf(inp.theme)).exc = "none"
        /\ _process_excel_export_mode(LowerOf(inp.excel_export_mode)).exc = "none"
        /\ _process_css(inp.custom_css).exc = "none"
        /\ opts.exc = "none"
        /\ _process_update_on(inp.update_on, auto_height(opts.go, inp.height)).exc = "none"

\* C21: ag_grid is fail-fast.  The construction succeeds exactly when every step
\* of it succeeds; when it fails, ag_grid raises a GridBuilderError and the
\* component is never invoked; the component is invoked only after a successful
\* construction, and the response is decoded only after the component has
\* returned.
C21_FailFast ==
    /\ [][(call.pc = "idle" /\ call'.pc # "idle")
            => /\ grid'.exc = "none" <=> StepsSucceed(grid'.inp, grid_options)
               /\ call'.pc = "built" <=> grid'.exc = "none"]_vars
    /\ []((grid.called /\ grid.exc # "none")
            => /\ call.pc = "raised" /\ call.exc = "GridBuilderError"
               /\ ~call.invoked /\ ~response.called)
    /\ []((call.pc # "idle" /\ call.invoked) => (grid.called /\ grid.exc = "none"))
    /\ [](response.called
            => /\ call.pc # "idle" /\ call.invoked /\ call.outcome.kind = "returned")
    /\ [][(~response.called /\ response'.called) => call.pc = "rendered"]_vars

\* a construction that fails in the grid options with an error that is no
\* builder error has made ag_grid raise a GridBuilderError without a render call
C21_Witness ==
    /\ grid.called /\ grid.exc \in {"KeyError", "TypeError", "AttributeError"}
    /\ call.pc = "raised" /\ call.exc = "GridBuilderError" /\ ~call.invoked

\* the component call of this ag_grid call raised a marshalling error
MarshallingFailure ==
    /\ call.pc # "idle" /\ call.invoked
    /\ call.outcome.kind = "raised" /\ call.outcome.exc = "MarshallComponentException"

\* C22 as stated: whenever the component call raises a marshalling error,
\* ag_grid raises an error of the same kind whose message is the original
\* message with the note appended, and returns no result, whether unsafe scripts
\* were allowed or not.
C22_MarshallErrorGetsNote ==
    MarshallingFailure
        => /\ call.pc = "raised" /\ call.exc = "MarshallComponentException"
           /\ call.args[1] = call.outcome.args[1] \o Hint
           /\ ~response.called

\* C22 as the code has it: whenever the component call raises a marshalling
\* error, ag_grid raises an error of the same kind and returns no result; its
\* message is the original message with the note appended when unsafe scripts
\* were not allowed and the original message when they were, and its other
\* arguments are the original ones.
C22_MarshallErrorGetsNoteUnlessUnsafeAllowed ==
    MarshallingFailure
        => /\ call.pc = "raised" /\ call.exc = "MarshallComponentException"
           /\ call.args[1] = IF grid.obj.allow_unsafe_js THEN call.outcome.args[1]
                             ELSE call.outcome.args[1] \o Hint
           /\ Tail(call.args) = Tail(call.outcome.args)
           /\ ~response.called

\* a marshalling error of a call that allowed unsafe scripts has been re-raised
C22_Witness ==
    /\ MarshallingFailure /\ grid.obj.allow_unsafe_js
    /\ call.pc = "raised" /\ call.args = call.outcome.args

\* C23: add_column(field) and add_column(field, header) without per-column
\* options store a definition that carries the builder's default options
\* (minWidth, editable, sortable, resizable) besides field and headerName, and
\* headerName is the field when no header is given.
C23_AddColumnCarriesDefaults ==
    [][\A f \in Fields, h \in Headers :
        (AddColumn({f}, {h}, {EmptyDict}) /\ last'.exc = "none")
            => LET cd == grid_options'["columnDefs"]
                   defs == cd.vals[IndexOf(cd.keys, f)]
               IN  /\ defs["field"] = f
                   /\ defs["headerName"] = (IF h = "None" THEN f ELSE h)
                   /\ \A k \in DOMAIN default_options :
                        k \in DOMAIN defs /\ defs[k] = default_options[k]]_vars

\* C24: a construction, successful or not, leaves the caller's arguments as they
\* were: the data, a raw grid_options mapping and the update_on list have the
\* contents they had before the call.
C24_CallerArgumentsUnchanged ==
    grid.called
        => /\ grid.data = grid.inp.data
           /\ grid.inp.kind = "dict" => grid.raw = grid.inp.raw
           /\ grid.update_on = grid.inp.update_on

====
